---- MODULE Spec2Model ----
(***************************************************************************)
(* Task manager: the in-memory task store behind the REST controllers      *)
(* (backend) and the React Query cache with its four mutation hooks         *)
(* (frontend).  One client is mounted; its requests travel over a network   *)
(* that may lose a request or a response.                                   *)
(***************************************************************************)
EXTENDS Integers, Sequences, FiniteSets, TLC

\* ------------------------------------------------------------------ bounds
\* number of mutateAsync calls in a run (each creates one mutation object)
MaxCalls == 2
\* largest id the store assigns when plain HTTP clients create tasks
MaxId == 3

VARIABLES
  tasks,            \* TaskService.tasks
  nextId,           \* TaskService.nextId
  issued,           \* history: every id a create has ever assigned
  cache,            \* query data under QUERY_KEYS.TASKS: None or Some(list)
  invalid,          \* the query's isInvalidated flag
  fetch,            \* the list fetch in flight, if any
  queryError,       \* tasksQuery.error is set
  mut,              \* the mutation objects
  validationError,  \* TaskForm.validationError is set
  toggleError,      \* what the last toggleTaskStatus call threw before any request, "" if nothing
  direct            \* the last exchange of a plain HTTP client with the server, if any

vars == <<tasks, nextId, issued, cache, invalid, fetch, queryError, mut, validationError,
          toggleError, direct>>

\* ------------------------------------------------------------ option values
None == <<>>
Some(x) == <<x>>
IsSome(o) == o # <<>>
Get(o) == o[1]

\* ------------------------------------------------------------- sequences
Range(s) == {s[i] : i \in 1..Len(s)}
Ids(s) == {s[i].id : i \in 1..Len(s)}

\* Array.prototype.findIndex(task => task.id === id), 0 for -1
FindIndex(s, id) ==
  IF \E i \in 1..Len(s) : s[i].id = id
  THEN CHOOSE i \in 1..Len(s) : s[i].id = id /\ \A j \in 1..(i-1) : s[j].id # id
  ELSE 0

\* variant: splice(i) without a delete count removes the rest of the list
Splice_rest(s, i) == [j \in 1..(i-1) |-> s[j]]

\* Array.prototype.splice(i, 1)
Splice(s, i) == [j \in 1..(Len(s)-1) |-> IF j < i THEN s[j] ELSE s[j+1]]

\* variant: only the first record with the id is left out
FilterOut_first(s, id) ==
  IF \E i \in 1..Len(s) : s[i].id = id
  THEN LET i == CHOOSE i \in 1..Len(s) : s[i].id = id /\ \A j \in 1..(i-1) : s[j].id # id
       IN [j \in 1..(Len(s)-1) |-> IF j < i THEN s[j] ELSE s[j+1]]
  ELSE s

\* Array.prototype.filter(task => task.id !== id)
FilterOut(s, id) == SelectSeq(s, LAMBDA t : t.id # id)

\* object spread { ...a, ...b }
Spread(a, b) == [f \in (DOMAIN a) \cup (DOMAIN b) |-> IF f \in DOMAIN b THEN b[f] ELSE a[f]]

\* ------------------------------------------------------------ zod schemas
TaskStatuses == {"pending", "done"}

\* variant: the schema without .min(1) and with a free-form status
CreateTaskSchemaOk_lax(body) ==
  "title" \in DOMAIN body /\ "description" \in DOMAIN body

\* CreateTaskSchema.parse succeeds
CreateTaskSchemaOk(body) ==
  /\ "title" \in DOMAIN body /\ body.title # ""
  /\ "description" \in DOMAIN body /\ body.description # ""
  /\ ("status" \in DOMAIN body => body.status \in TaskStatuses)

\* variant: keys the schema does not know are kept (passthrough)
CreateTaskSchemaParse_passthrough(body) == Spread([status |-> "pending"], body)

\* variant: the status defaults to done
CreateTaskSchemaParse_done(body) ==
  [title |-> body.title, description |-> body.description,
   status |-> IF "status" \in DOMAIN body THEN body.status ELSE "done"]

\* the value CreateTaskSchema.parse returns: known keys only, status defaulted
CreateTaskSchemaParse(body) ==
  [title |-> body.title, description |-> body.description,
   status |-> IF "status" \in DOMAIN body THEN body.status ELSE "pending"]

\* variant: any status string is accepted
UpdateTaskSchemaOk_lax(body) == "status" \in DOMAIN body

\* UpdateTaskSchema.parse succeeds
UpdateTaskSchemaOk(body) == "status" \in DOMAIN body /\ body.status \in TaskStatuses

\* variant: keys the schema does not know are kept (passthrough)
UpdateTaskSchemaParse_passthrough(body) == body

\* the value UpdateTaskSchema.parse returns
UpdateTaskSchemaParse(body) == [status |-> body.status]

\* ------------------------------------------------------------ task store
SampleTask == [id |-> "1", title |-> "Sample Task",
               description |-> "This is a sample task", status |-> "pending"]

\* variant: the id is taken from the length of the list
NewId_length(n, ts) == ToString(Len(ts) + 1)

\* id: this.nextId.toString()
NewId(n, ts) == ToString(n)

\* TaskService.createTask: the new record
NewTask(n, ts, taskData) == Spread([id |-> NewId(n, ts)], taskData)

\* this.nextId++
BumpId(n) == n + 1

\* variant: the new task is put in front (unshift)
Push_front(ts, newTask) == <<newTask>> \o ts

\* this.tasks.push(newTask)
Push(ts, newTask) == Append(ts, newTask)

\* TaskService.deleteTask: the list afterwards
DeleteFrom(ts, id) == IF FindIndex(ts, id) = 0 THEN ts ELSE Splice(ts, FindIndex(ts, id))

\* TaskService.updateTaskStatus / updateTask: the list afterwards
UpdateIn(ts, id, updateData) ==
  IF FindIndex(ts, id) = 0 THEN ts
  ELSE [ts EXCEPT ![FindIndex(ts, id)] = Spread(@, updateData)]

\* ------------------------------------------------------------ controllers
\* Each controller yields the response and the store it leaves behind.
Result(resp, ts, n, iss) == [resp |-> resp, tasks |-> ts, nextId |-> n, issued |-> iss]

\* POST /tasks
createTask(body, ts, n, iss) ==
  IF CreateTaskSchemaOk(body)
  THEN LET newTask == NewTask(n, ts, CreateTaskSchemaParse(body))
       IN Result([code |-> 201, body |-> newTask],
                 Push(ts, newTask), BumpId(n), iss \cup {newTask.id})
  ELSE Result([code |-> 400], ts, n, iss)

\* DELETE /tasks/:id
deleteTask(id, ts, n, iss) ==
  IF id = "" THEN Result([code |-> 400], ts, n, iss)
  ELSE IF FindIndex(ts, id) = 0 THEN Result([code |-> 404], ts, n, iss)
  ELSE Result([code |-> 200], DeleteFrom(ts, id), n, iss)

\* variant: a PATCH for an id the store does not have creates the record
updateTaskStatus_upsert(id, body, ts, n, iss) ==
  IF ~UpdateTaskSchemaOk(body) THEN Result([code |-> 400], ts, n, iss)
  ELSE LET after == IF FindIndex(ts, id) = 0
                    THEN Append(ts, Spread(SampleTask, Spread([id |-> id], UpdateTaskSchemaParse(body))))
                    ELSE UpdateIn(ts, id, UpdateTaskSchemaParse(body))
       IN Result([code |-> 200, body |-> after[FindIndex(after, id)]], after, n, iss)

\* PATCH /tasks/:id
updateTaskStatus(id, body, ts, n, iss) ==
  IF id = "" THEN Result([code |-> 400], ts, n, iss)
  ELSE IF ~UpdateTaskSchemaOk(body) THEN Result([code |-> 400], ts, n, iss)
  ELSE IF FindIndex(ts, id) = 0 THEN Result([code |-> 404], ts, n, iss)
  ELSE LET after == UpdateIn(ts, id, UpdateTaskSchemaParse(body))
       IN Result([code |-> 200, body |-> after[FindIndex(ts, id)]], after, n, iss)

\* variant: the request body goes to the service unparsed
updateTask_unparsed(id, body, ts, n, iss) ==
  IF id = "" THEN Result([code |-> 400], ts, n, iss)
  ELSE IF FindIndex(ts, id) = 0 THEN Result([code |-> 404], ts, n, iss)
  ELSE LET after == UpdateIn(ts, id, body)
       IN Result([code |-> 200, body |-> after[FindIndex(ts, id)]], after, n, iss)

\* PUT /tasks/:id
updateTask(id, body, ts, n, iss) ==
  IF id = "" THEN Result([code |-> 400], ts, n, iss)
  ELSE IF ~CreateTaskSchemaOk(body) THEN Result([code |-> 400], ts, n, iss)
  ELSE IF FindIndex(ts, id) = 0 THEN Result([code |-> 404], ts, n, iss)
  ELSE LET after == UpdateIn(ts, id, CreateTaskSchemaParse(body))
       IN Result([code |-> 200, body |-> after[FindIndex(ts, id)]], after, n, iss)

\* the router: which controller answers a mutation's request
Handle(kind, id, body, ts, n, iss) ==
  CASE kind = "create" -> createTask(body, ts, n, iss)
    [] kind = "status" -> updateTaskStatus(id, body, ts, n, iss)
    [] kind = "update" -> updateTask(id, body, ts, n, iss)
    [] kind = "delete" -> deleteTask(id, ts, n, iss)

\* response.ok
Ok(resp) == resp.code \in {200, 201}

\* -------------------------------------------------------- client: inputs
Kinds == {"create", "status", "update", "delete"}

\* ids a caller may name: the sample task's and the first one a create issues
IdInputs == {"1", "2"}

\* bodies handed to useTasks().createTask
CreateInputs == {[title |-> "A", description |-> "B"],
                 [title |-> "", description |-> "x"],
                 [title |-> "A", description |-> ""]}

\* bodies handed to useTasks().updateTask
UpdateInputs == {[title |-> "A", description |-> "B"],
                 [title |-> "A", description |-> "B", status |-> "done"],
                 [title |-> "", description |-> "B", status |-> "archived"]}

\* PATCH bodies that UpdateTaskSchema refuses, as any HTTP client may send them
BadPatchInputs == {[status |-> "archived"]}

\* what the user may have typed in the form's fields
FieldInputs == {" ", " A "}

\* String.prototype.trim on the field inputs
Trim(s) == CASE s = " " -> "" [] s = " A " -> "A" [] OTHER -> s

\* validateCreateTask(taskData).success
ValidateCreateTaskOk(taskData) == taskData.title # "" /\ taskData.description # ""

\* ------------------------------------------------------ client: mutations
\* the mutation objects created so far or still to be created
Mut == DOMAIN mut
NoData == [none |-> TRUE]
NoResp == [code |-> 0]
IdleMut == [kind |-> "none", id |-> "", data |-> NoData, ctx |-> None, start |-> None,
            stage |-> "idle", attempts |-> 0, resp |-> NoResp]

\* mutations: { retry: 1 }
MutationRetry == 1

Pending(m) == mut[m].stage \in {"sent", "answered"}
Free(m) == mut[m].stage = "idle"
FirstFree == CHOOSE m \in Mut : Free(m) /\ \A k \in 1..(m-1) : ~Free(k)

\* no exchange of a plain HTTP client yet
NoExchange == [kind |-> "none"]

\* the number of mutation objects created so far
Started == Cardinality({m \in Mut : ~Free(m)})

\* a list fetch: its stage, the list the server answered with, and (history)
\* how many mutations had been started when it was started
NoFetch == [stage |-> "none", data |-> <<>>, born |-> 0]
SentFetch == [stage |-> "sent", data |-> <<>>, born |-> Started]

\* variant: onMutate leaves the fetch in flight alone
CancelQueries_keep(f) == f

\* queryClient.cancelQueries({ queryKey: QUERY_KEYS.TASKS })
CancelQueries(f) == NoFetch

\* variant: the update is merged into every cached record
OptimisticApply_all(kind, oldTasks, id, data) ==
  CASE kind \in {"status", "update"} ->
         [i \in 1..Len(oldTasks) |-> Spread(oldTasks[i], data)]
    [] kind = "delete" -> FilterOut(oldTasks, id)
    [] kind = "create" -> oldTasks

\* the updater each onMutate hands to setQueryData
OptimisticApply(kind, oldTasks, id, data) ==
  CASE kind = "status" ->
         [i \in 1..Len(oldTasks) |->
            IF oldTasks[i].id = id THEN Spread(oldTasks[i], data) ELSE oldTasks[i]]
    [] kind = "update" ->
         [i \in 1..Len(oldTasks) |->
            IF oldTasks[i].id = id THEN Spread(oldTasks[i], data) ELSE oldTasks[i]]
    [] kind = "delete" -> FilterOut(oldTasks, id)
    [] kind = "create" -> oldTasks

\* variant: one snapshot shared by the mutations in flight
Snapshot_shared(kind, c) ==
  IF kind = "create" THEN None
  ELSE IF \E k \in Mut : Pending(k) /\ IsSome(mut[k].ctx)
       THEN mut[CHOOSE k \in Mut : Pending(k) /\ IsSome(mut[k].ctx)].ctx
       ELSE c

\* the context onMutate returns: { previousTasks }
Snapshot(kind, c) == IF kind = "create" THEN None ELSE c

\* mutateAsync: onMutate (cancel, snapshot, optimistic write), then the request
Mutate(kind, id, data) ==
  /\ \E m \in Mut : Free(m)
  /\ LET m == FirstFree
     IN mut' = [mut EXCEPT ![m] =
                  [kind |-> kind, id |-> id, data |-> data, ctx |-> Snapshot(kind, cache),
                   start |-> cache, stage |-> "sent", attempts |-> 1, resp |-> NoResp]]
  /\ IF kind = "create"
     THEN UNCHANGED <<cache, invalid, fetch>>
     ELSE /\ fetch' = CancelQueries(fetch)
          /\ IF IsSome(cache)
             THEN /\ cache' = Some(OptimisticApply(kind, Get(cache), id, data))
                  /\ invalid' = FALSE
             ELSE UNCHANGED <<cache, invalid>>
  /\ UNCHANGED <<tasks, nextId, issued, queryError>>

\* useTasks().createTask
CreateTask(taskData) ==
  /\ Mutate("create", "", taskData)
  /\ UNCHANGED <<validationError, toggleError, direct>>

\* TaskForm.handleSubmit -> App.handleCreateTask -> createTask
HandleSubmit(title, description) ==
  LET taskData == [title |-> Trim(title), description |-> Trim(description)]
  IN /\ ~\E m \in Mut : Pending(m) /\ mut[m].kind = "create"
     /\ IF ~ValidateCreateTaskOk(taskData)
        THEN /\ validationError' = TRUE
             /\ UNCHANGED <<tasks, nextId, issued, cache, invalid, fetch, queryError, mut>>
        ELSE /\ validationError' = FALSE
             /\ Mutate("create", "", taskData)
     /\ UNCHANGED <<toggleError, direct>>

\* variant: a toggle always completes the task
NewStatus_done(status) == "done"

\* task.status === 'done' ? 'pending' : 'done'
NewStatus(status) == IF status = "done" THEN "pending" ELSE "done"

\* tasksQuery.data || []
CurrentTasks == IF IsSome(cache) THEN Get(cache) ELSE <<>>

\* new Error('Task not found')
TaskNotFound == "Task not found"

\* variant: no lookup in the cached list, the request is sent in any case
ToggleTaskStatus_send(id) ==
  /\ Mutate("status", id, [status |-> "done"])
  /\ toggleError' = ""
  /\ UNCHANGED <<validationError, direct>>

\* useTasks().toggleTaskStatus
ToggleTaskStatus(id) ==
  IF FindIndex(CurrentTasks, id) = 0
  THEN /\ toggleError' = TaskNotFound
       /\ UNCHANGED <<tasks, nextId, issued, cache, invalid, fetch, queryError, mut,
                      validationError, direct>>
  ELSE /\ Mutate("status", id,
                 [status |-> NewStatus(CurrentTasks[FindIndex(CurrentTasks, id)].status)])
       /\ toggleError' = ""
       /\ UNCHANGED <<validationError, direct>>

\* useTasks().updateTask
UpdateTask(id, updates) ==
  /\ Mutate("update", id, updates)
  /\ UNCHANGED <<validationError, toggleError, direct>>

\* useTasks().deleteTask
DeleteTask(id) ==
  /\ Mutate("delete", id, NoData)
  /\ UNCHANGED <<validationError, toggleError, direct>>

\* --------------------------------------------- network and the server
\* the request of mutation m reaches the server and a controller answers it
ServerProcess(m) ==
  /\ mut[m].stage = "sent"
  /\ LET r == Handle(mut[m].kind, mut[m].id, mut[m].data, tasks, nextId, issued)
     IN /\ tasks' = r.tasks
        /\ nextId' = r.nextId
        /\ issued' = r.issued
        /\ mut' = [mut EXCEPT ![m].stage = "answered", ![m].resp = r.resp]
  /\ UNCHANGED <<cache, invalid, fetch, queryError, validationError, toggleError, direct>>

\* PATCH /tasks/:id from another HTTP client with a body the schema refuses
\* (this client's own PATCH bodies are computed by toggleTaskStatus)
BadPatchRequest(id, body) ==
  /\ LET r == updateTaskStatus(id, body, tasks, nextId, issued)
     IN /\ tasks' = r.tasks
        /\ nextId' = r.nextId
        /\ issued' = r.issued
  /\ UNCHANGED <<cache, invalid, fetch, queryError, mut, validationError, toggleError, direct>>

\* a settled mutation object: only its kind and status remain observable
Settled(m, status) == [IdleMut EXCEPT !.kind = mut[m].kind, !.stage = status]

\* does the settlement of a mutation of this kind call invalidateQueries?
\* (create: in onSuccess only; the other three: in onSettled)
SettleInvalidates(kind, ok) == IF kind = "create" THEN ok ELSE TRUE

\* variant: onError restores nothing
Rollback_none(kind, ctx, c) == c

\* the data onError leaves in the cache: context.previousTasks if there is one
Rollback(kind, ctx, c) == IF kind # "create" /\ IsSome(ctx) THEN ctx ELSE c

\* variant: the two update hooks write the returned record over the cached one
Merge_replace(kind, c, newTask) ==
  IF kind = "create" THEN Some(Append(IF IsSome(c) THEN Get(c) ELSE <<>>, newTask))
  ELSE IF kind \in {"status", "update"} /\ IsSome(c)
       THEN Some([i \in 1..Len(Get(c)) |->
                    IF Get(c)[i].id = newTask.id THEN newTask ELSE Get(c)[i]])
       ELSE c

\* variant: create puts the new task in front
Merge_front(kind, c, newTask) ==
  IF kind = "create" THEN Some(<<newTask>> \o (IF IsSome(c) THEN Get(c) ELSE <<>>)) ELSE c

\* the data onSuccess leaves in the cache: create appends the new task
Merge(kind, c, newTask) ==
  IF kind = "create" THEN Some(Append(IF IsSome(c) THEN Get(c) ELSE <<>>, newTask)) ELSE c

\* onSuccess, onSettled
SettleSuccess(m) ==
  /\ cache' = Merge(mut[m].kind, cache, mut[m].resp.body)
  /\ IF SettleInvalidates(mut[m].kind, TRUE)
     THEN invalid' = TRUE /\ fetch' = SentFetch
     ELSE /\ invalid' = (IF mut[m].kind = "create" THEN FALSE ELSE invalid)
          /\ UNCHANGED fetch
  /\ mut' = [mut EXCEPT ![m] = Settled(m, "success")]

\* onError, onSettled
SettleError(m) ==
  /\ cache' = Rollback(mut[m].kind, mut[m].ctx, cache)
  /\ IF SettleInvalidates(mut[m].kind, FALSE)
     THEN invalid' = TRUE /\ fetch' = SentFetch
     ELSE /\ invalid' = (IF mut[m].kind # "create" /\ IsSome(mut[m].ctx) THEN FALSE ELSE invalid)
          /\ UNCHANGED fetch
  /\ mut' = [mut EXCEPT ![m] = Settled(m, "error")]

\* variant: the first failure is final
AttemptFailed_once(m) == SettleError(m)

\* mutationFn threw: retry once, then give up
AttemptFailed(m) ==
  IF mut[m].attempts < 1 + MutationRetry
  THEN /\ mut' = [mut EXCEPT ![m].stage = "sent", ![m].resp = NoResp,
                             ![m].attempts = @ + 1]
       /\ UNCHANGED <<cache, invalid, fetch>>
  ELSE SettleError(m)

\* makeRequest returns or throws APIError(status)
ResponseDelivered(m) ==
  /\ mut[m].stage = "answered"
  /\ IF Ok(mut[m].resp) THEN SettleSuccess(m) ELSE AttemptFailed(m)
  /\ UNCHANGED <<tasks, nextId, issued, queryError, validationError, toggleError, direct>>

\* fetch rejects: the request or its response is lost, APIError(0)
NetworkError(m) ==
  /\ Pending(m)
  /\ AttemptFailed(m)
  /\ UNCHANGED <<tasks, nextId, issued, queryError, validationError, toggleError, direct>>

\* ------------------------------------------------------- the list query
\* GET /tasks is answered from the store
FetchServe ==
  /\ fetch.stage = "sent"
  /\ fetch' = [fetch EXCEPT !.stage = "served", !.data = tasks]
  /\ UNCHANGED <<tasks, nextId, issued, cache, invalid, queryError, mut, validationError, toggleError, direct>>

\* queryFn resolves: the result becomes the query data
FetchDeliver ==
  /\ fetch.stage = "served"
  /\ cache' = Some(fetch.data)
  /\ invalid' = FALSE
  /\ queryError' = FALSE
  /\ fetch' = NoFetch
  /\ UNCHANGED <<tasks, nextId, issued, mut, validationError, toggleError, direct>>

\* queryFn rejects and the query's retries are used up
FetchFail ==
  /\ fetch.stage # "none"
  /\ fetch' = NoFetch
  /\ queryError' = TRUE
  /\ UNCHANGED <<tasks, nextId, issued, cache, invalid, mut, validationError, toggleError, direct>>

\* ------------------------------------------------- what the caller sees
\* the mutation a hook's result reflects: the last one started through it
\* (0 if none was)
Latest(kind) ==
  IF \E m \in Mut : mut[m].kind = kind
  THEN CHOOSE m \in Mut : mut[m].kind = kind /\ \A k \in Mut : mut[k].kind = kind => k <= m
  ELSE 0

\* useTasks().error is not null
ExposedError ==
  \/ queryError
  \/ \E kind \in Kinds : Latest(kind) # 0 /\ mut[Latest(kind)].stage = "error"

\* ------------------------------------------------------- specification
\* the state after the server has started and the app has mounted, with room
\* for the given mutation objects
InitWith(slots) ==
  /\ tasks = <<SampleTask>>
  /\ nextId = 2
  /\ issued = {"1"}
  /\ cache = None
  /\ invalid = FALSE
  /\ fetch = [NoFetch EXCEPT !.stage = "sent"]
  /\ queryError = FALSE
  /\ mut = [m \in slots |-> IdleMut]
  /\ validationError = FALSE
  /\ toggleError = ""
  /\ direct = NoExchange

Init == InitWith(1..MaxCalls)

Next ==
  \/ \E d \in CreateInputs : CreateTask(d)
  \/ \E t \in FieldInputs, d \in FieldInputs : HandleSubmit(t, d)
  \/ \E id \in IdInputs : ToggleTaskStatus(id)
  \/ \E id \in IdInputs, u \in UpdateInputs : UpdateTask(id, u)
  \/ \E id \in IdInputs : DeleteTask(id)
  \/ \E m \in Mut : ServerProcess(m)
  \/ \E id \in IdInputs, b \in BadPatchInputs : BadPatchRequest(id, b)
  \/ \E m \in Mut : ResponseDelivered(m)
  \/ \E m \in Mut : NetworkError(m)
  \/ FetchServe
  \/ FetchDeliver
  \/ FetchFail

Spec == Init /\ [][Next]_vars

\* --------------------------------------------- the REST contract on its own
\* Plain HTTP clients talk to the server; the app's client is not involved.
\* ids such a client may name
HttpIds == {ToString(n) : n \in 1..MaxId}

\* JSON bodies such a client may send, with any method
HttpBodies == {[title |-> "A", description |-> "B"],
               [status |-> "pending"],
               [status |-> "done", title |-> "X", id |-> "9"],
               [id |-> "2", title |-> "C", description |-> "D", status |-> "done"],
               [title |-> "", description |-> "B", status |-> "archived"]}

\* one request handled by the router, a controller and the service
DirectRequest(kind, id, body) ==
  /\ LET r == Handle(kind, id, body, tasks, nextId, issued)
     IN /\ tasks' = r.tasks
        /\ nextId' = r.nextId
        /\ issued' = r.issued
        /\ direct' = [kind |-> kind, id |-> id, body |-> body, resp |-> r.resp]
  /\ UNCHANGED <<cache, invalid, fetch, queryError, mut, validationError, toggleError>>

\* POST /tasks
DirectPost(body) == nextId <= MaxId /\ DirectRequest("create", "", body)
\* PATCH /tasks/:id
DirectPatch(id, body) == id \in HttpIds /\ DirectRequest("status", id, body)
\* PUT /tasks/:id
DirectPut(id, body) == id \in HttpIds /\ DirectRequest("update", id, body)
\* DELETE /tasks/:id
DirectDelete(id) == id \in HttpIds /\ DirectRequest("delete", id, NoData)

ServerNext ==
  \/ \E b \in HttpBodies : DirectPost(b)
  \/ \E id \in HttpIds, b \in HttpBodies : DirectPatch(id, b)
  \/ \E id \in HttpIds, b \in HttpBodies : DirectPut(id, b)
  \/ \E id \in HttpIds : DirectDelete(id)

SpecServer == Init /\ [][ServerNext]_vars

\* ------------------------------------------------ the end-to-end scenario
\* One caller lists, creates, toggles and deletes, awaiting each call.
Scenario == <<"create", "status", "delete">>
BuyMilk == [title |-> "Buy milk", description |-> "2%"]

\* the promises of the first k calls have resolved
Awaited(k) == \A m \in 1..k : mut[m].stage = "success"

\* await createTask({ title: 'Buy milk', description: '2%' }), once the list is there
ScenarioCreate ==
  /\ IsSome(cache) /\ ~queryError
  /\ Free(1)
  /\ CreateTask(BuyMilk)

\* await toggleTaskStatus('1')
ScenarioToggle ==
  /\ Awaited(1) /\ Free(2)
  /\ ToggleTaskStatus("1")

\* await deleteTask('2')
ScenarioDelete ==
  /\ Awaited(2) /\ Free(3)
  /\ DeleteTask("2")

ScenarioInit == InitWith(DOMAIN Scenario)

ScenarioNext ==
  \/ ScenarioCreate
  \/ ScenarioToggle
  \/ ScenarioDelete
  \/ \E m \in Mut : ServerProcess(m)
  \/ \E m \in Mut : ResponseDelivered(m)
  \/ \E m \in Mut : NetworkError(m)
  \/ FetchServe
  \/ FetchDeliver
  \/ FetchFail

SpecScenario == ScenarioInit /\ [][ScenarioNext]_vars

\* ------------------------------------ the start of a mutation, await by await
\* onMutate is an async function: it calls cancelQueries, awaits it, and only
\* then takes the snapshot and writes.  The await gives way to what is queued
\* in the same turn of the event loop (other calls made in that turn); a
\* network response or a list result starts a turn of its own.
Starting(m) == mut[m].stage = "starting"
NoneStarting == \A m \in Mut : ~Starting(m)

\* mutateAsync of an optimistic hook, up to the await in onMutate
OnMutateCancel(kind, id, data) ==
  /\ kind # "create"
  /\ \E m \in Mut : Free(m)
  /\ mut' = [mut EXCEPT ![FirstFree] =
               [IdleMut EXCEPT !.kind = kind, !.id = id, !.data = data,
                               !.start = cache, !.stage = "starting"]]
  /\ fetch' = CancelQueries(fetch)
  /\ UNCHANGED <<tasks, nextId, issued, cache, invalid, queryError,
                 validationError, toggleError, direct>>

\* onMutate after the await (snapshot, optimistic write), then mutationFn;
\* continuations run in the order in which they were queued
OnMutateApply(m) ==
  /\ Starting(m) /\ \A k \in 1..(m-1) : ~Starting(k)
  /\ mut' = [mut EXCEPT ![m].ctx = Snapshot(mut[m].kind, cache),
                        ![m].stage = "sent", ![m].attempts = 1]
  /\ IF IsSome(cache)
     THEN /\ cache' = Some(OptimisticApply(mut[m].kind, Get(cache), mut[m].id, mut[m].data))
          /\ invalid' = FALSE
     ELSE UNCHANGED <<cache, invalid>>
  /\ UNCHANGED <<tasks, nextId, issued, fetch, queryError,
                 validationError, toggleError, direct>>

\* useTasks().toggleTaskStatus for a cached task
StartToggle(id) ==
  /\ FindIndex(CurrentTasks, id) # 0
  /\ OnMutateCancel("status", id,
                    [status |-> NewStatus(CurrentTasks[FindIndex(CurrentTasks, id)].status)])

\* useTasks().updateTask
StartUpdate(id, updates) == id \in IdInputs /\ OnMutateCancel("update", id, updates)

\* useTasks().deleteTask
StartDelete(id) == id \in IdInputs /\ OnMutateCancel("delete", id, NoData)

StartNext ==
  \/ \E id \in IdInputs : StartToggle(id)
  \/ \E id \in IdInputs : StartUpdate(id, [title |-> "A", description |-> "B"])
  \/ \E id \in IdInputs : StartDelete(id)
  \/ CreateTask([title |-> "A", description |-> "B"])
  \/ \E m \in Mut : OnMutateApply(m)
  \/ \E m \in Mut : ServerProcess(m)
  \/ FetchServe
  \/ NoneStarting /\ \E m \in Mut : ResponseDelivered(m)
  \/ NoneStarting /\ \E m \in Mut : NetworkError(m)
  \/ NoneStarting /\ FetchDeliver
  \/ NoneStarting /\ FetchFail

SpecStart == Init /\ [][StartNext]_vars

\* ---------------------------------------------------------- step shapes
\* mutation m was started / served / settled / settled as failed in this step
StartedIn(m) == mut[m].stage = "idle" /\ mut'[m].stage = "sent"
ProcessedIn(m) == mut[m].stage = "sent" /\ mut'[m].stage = "answered"
SettledIn(m) == Pending(m) /\ mut'[m].stage \in {"success", "error"}
FailedIn(m) == Pending(m) /\ mut'[m].stage = "error"

\* the status a list holds for an id, "" if the id is not in it
StatusOf(s, id) == IF FindIndex(s, id) = 0 THEN "" ELSE s[FindIndex(s, id)].status

Quiescent ==
  /\ \A m \in Mut : ~Pending(m)
  /\ fetch.stage = "none"
  /\ ~queryError

\* C2: once nothing is in flight any more and the list fetches have been
\* answered, the cached collection equals the store's.
C2_EventuallyConsistent == Quiescent => cache = Some(tasks)

\* ------------------------------------------------------------------- C3
\* C3: every settlement, of any kind and either outcome, marks the cached
\* collection invalid and starts a revalidating list fetch.
C3_SettleAlwaysInvalidates ==
  [][\A m \in Mut : SettledIn(m) => (invalid' /\ fetch'.stage = "sent")]_vars

\* ------------------------------------------------------------------- C4
\* C4: when a mutation fails while another one is in flight, the collection
\* its rollback restores is the cache as it was just before its own
\* optimistic write.
C4_OwnSnapshot ==
  [][\A m \in Mut :
       (/\ FailedIn(m) /\ IsSome(mut[m].ctx)
        /\ \E k \in Mut \ {m} : Pending(k))
         => cache' = mut[m].start]_vars

\* a mutation has failed and restored a collection that differs from the
\* snapshot held by another mutation, which is still in flight
C4_Witness ==
  \E m, k \in Mut : /\ m # k
                    /\ mut[m].stage = "error" /\ mut[m].kind # "create"
                    /\ Pending(k) /\ IsSome(mut[k].ctx)
                    /\ IsSome(cache) /\ cache # mut[k].ctx
                    /\ fetch.stage = "sent"

\* ------------------------------------------------------------------- C5
IdsDistinct(s) == \A i, j \in 1..Len(s) : s[i].id = s[j].id => i = j

\* C5: the ids in the store are pairwise distinct at all times, and the id a
\* create assigns has never been issued before (deleted tasks included).
C5_UniqueIds ==
  /\ [](IdsDistinct(tasks) /\ Ids(tasks) \subseteq issued)
  /\ [][\A m \in Mut :
          (ProcessedIn(m) /\ mut'[m].resp.code = 201)
            => /\ mut'[m].resp.body.id \notin issued
               /\ mut'[m].resp.body.id # "1"
               /\ nextId' > nextId]_vars

\* a create has been served after the sample task was deleted
C5_Witness ==
  /\ "1" \notin Ids(tasks)
  /\ \E m \in Mut : mut[m].stage = "answered" /\ mut[m].resp.code = 201

\* ------------------------------------------------------------------- C6
\* C6: every task in the store has a non-empty title, a non-empty
\* description and a status that is pending or done.
C6_StoredTasksValid ==
  \A i \in 1..Len(tasks) :
    /\ tasks[i].title # ""
    /\ tasks[i].description # ""
    /\ tasks[i].status \in {"pending", "done"}

\* an invalid full update of a stored task has been refused
C6_Witness ==
  \E m \in Mut : /\ mut[m].kind = "update" /\ mut[m].stage = "answered"
                 /\ mut[m].resp.code = 400 /\ mut[m].id \in Ids(tasks)

\* ------------------------------------------------------------------- C7
\* C7: a create with a non-empty title and description and no status is
\* answered 201 with a record that has a fresh non-empty id and status
\* pending and is in the store; a task leaves the store only by a
\* successful delete of its id.
C7_CreateSucceeds ==
  [][/\ \A m \in Mut :
          (/\ ProcessedIn(m) /\ mut[m].kind = "create"
           /\ mut[m].data.title # "" /\ mut[m].data.description # ""
           /\ "status" \notin DOMAIN mut[m].data)
            => /\ mut'[m].resp.code = 201
               /\ mut'[m].resp.body.id # ""
               /\ mut'[m].resp.body.id \notin Ids(tasks)
               /\ mut'[m].resp.body.status = "pending"
               /\ mut'[m].resp.body.title = mut[m].data.title
               /\ mut'[m].resp.body.description = mut[m].data.description
               /\ \E i \in 1..Len(tasks') : tasks'[i] = mut'[m].resp.body
     /\ \A id \in Ids(tasks) :
          \/ id \in Ids(tasks')
          \/ \E m \in Mut : /\ ProcessedIn(m) /\ mut[m].kind = "delete"
                            /\ mut[m].id = id /\ mut'[m].resp.code = 200]_vars

\* a created task is listed by the store and has reached the cache
C7_Witness ==
  /\ \E m \in Mut : mut[m].kind = "create" /\ mut[m].stage = "success"
  /\ "2" \in Ids(tasks)
  /\ cache = Some(tasks)

\* ------------------------------------------------------------------- C8
\* a create body with an empty title or an empty description
EmptyField(data) ==
  /\ "title" \in DOMAIN data /\ "description" \in DOMAIN data
  /\ (data.title = "" \/ data.description = "")

\* C8: a create with an empty title or description is answered 400, and no
\* step of it (call, request, retry, failure handling) changes the store's
\* list, the id counter or the cached collection; the form refuses such an
\* input without starting a mutation.
C8_InvalidCreateRejected ==
  [][/\ \A m \in Mut :
          (ProcessedIn(m) /\ mut[m].kind = "create" /\ EmptyField(mut[m].data))
            => mut'[m].resp.code = 400
     /\ \A m \in Mut :
          (/\ mut'[m] # mut[m]
           /\ \/ mut[m].kind = "create" /\ Pending(m) /\ EmptyField(mut[m].data)
              \/ StartedIn(m) /\ mut'[m].kind = "create" /\ EmptyField(mut'[m].data))
            => UNCHANGED <<tasks, nextId, issued, cache>>
     /\ (validationError' /\ ~validationError)
            => UNCHANGED <<tasks, nextId, issued, cache, mut>>]_vars

\* an invalid create has been refused by the server and has failed for good
C8_Witness ==
  /\ \E m \in Mut : mut[m].kind = "create" /\ mut[m].stage = "error"
  /\ \E m \in Mut : /\ mut[m].kind = "create" /\ mut[m].stage = "answered"
                    /\ mut[m].resp.code = 400 /\ mut[m].attempts = 2
  /\ validationError

\* ------------------------------------------------------------------- C9
\* C9: a delete of an id that is not in the store is answered 404 and changes
\* nothing; a delete of an id that is in the store is answered 200 and
\* removes that task and no other, so the id is gone for the next delete.
C9_Delete ==
  [][\A m \in Mut :
       (ProcessedIn(m) /\ mut[m].kind = "delete")
         => IF mut[m].id \in Ids(tasks)
            THEN /\ mut'[m].resp.code = 200
                 /\ tasks' = FilterOut(tasks, mut[m].id)
                 /\ Len(tasks') = Len(tasks) - 1
                 /\ mut[m].id \notin Ids(tasks')
            ELSE /\ mut'[m].resp.code = 404
                 /\ tasks' = tasks]_vars

\* a delete of an id that was deleted before is answered not-found, while
\* another task is still in the store
C9_Witness ==
  \E m \in Mut : /\ mut[m].kind = "delete" /\ mut[m].stage = "answered"
                 /\ mut[m].resp.code = 404 /\ mut[m].id \in issued
                 /\ Len(tasks) > 0

\* ------------------------------------------------------------------ C10
\* C10: a toggle is issued only for a cached task, with the status opposite
\* to the cached one; when the cached status it was computed from is the
\* store's, serving it flips the store's status, so that two such toggles
\* restore the original status.
C10_Toggle ==
  [][\A m \in Mut :
       /\ (StartedIn(m) /\ mut'[m].kind = "status")
            => /\ IsSome(cache)
               /\ mut'[m].id \in Ids(Get(cache))
               /\ StatusOf(Get(cache), mut'[m].id) = "pending"
                    => mut'[m].data = [status |-> "done"]
               /\ StatusOf(Get(cache), mut'[m].id) = "done"
                    => mut'[m].data = [status |-> "pending"]
       /\ (/\ ProcessedIn(m) /\ mut[m].kind = "status"
           /\ mut'[m].resp.code = 200
           /\ StatusOf(Get(mut[m].start), mut[m].id) = StatusOf(tasks, mut[m].id))
            => /\ StatusOf(tasks', mut[m].id) # StatusOf(tasks, mut[m].id)
               /\ StatusOf(tasks', mut[m].id) \in {"pending", "done"}]_vars

\* two toggles of the sample task have succeeded and it is pending again
C10_Witness ==
  /\ \A m \in 1..2 : mut[m].kind = "status" /\ mut[m].stage = "success"
  /\ StatusOf(tasks, "1") = "pending"
  /\ cache = Some(tasks)

\* ------------------------------------------------------------------ C11
\* C11: a toggle of an id that is absent from the cached list throws
\* "Task not found", creates no mutation, sends no request and changes
\* neither the cache nor the store, whether or not the store has the id; a
\* status mutation is only ever started for an id in the cached list.
C11_ToggleAbsent ==
  [][/\ \A id \in IdInputs :
          (ToggleTaskStatus(id) /\ id \notin Ids(CurrentTasks))
            => /\ toggleError' = TaskNotFound
               /\ UNCHANGED <<tasks, nextId, issued, cache, invalid, fetch, mut>>
     /\ \A m \in Mut :
          (StartedIn(m) /\ mut'[m].kind = "status")
            => mut'[m].id \in Ids(CurrentTasks) /\ toggleError' = ""
     /\ (toggleError' = TaskNotFound /\ toggleError = "")
            => UNCHANGED <<tasks, nextId, issued, cache, invalid, fetch, mut>>]_vars

\* a toggle has thrown although the store holds both ids a caller can name:
\* the created task has not reached the cache, and nothing was sent for it
C11_Witness ==
  /\ toggleError = TaskNotFound
  /\ Ids(tasks) = IdInputs
  /\ IsSome(cache) /\ Ids(Get(cache)) = {"1"}
  /\ \A m \in Mut : mut[m].kind # "status"

\* ------------------------------------------------------------------ C12
\* C12: in the scenario list, create {"Buy milk", "2%"}, toggle "1",
\* delete "2", each call awaited: the list shows exactly the sample task;
\* once the create has resolved the store holds two records, the new one with
\* id "2" and status pending; once the toggle has resolved task "1" is done;
\* once the delete has resolved the store holds exactly task "1", done.
C12_Scenario ==
  /\ (IsSome(cache) /\ Free(1)) => cache = Some(<<SampleTask>>)
  /\ (Awaited(1) /\ Free(2))
       => tasks = <<SampleTask, Spread([id |-> "2", status |-> "pending"], BuyMilk)>>
  /\ (Awaited(2) /\ Free(3)) => StatusOf(tasks, "1") = "done"
  /\ Awaited(3) => tasks = <<[SampleTask EXCEPT !.status = "done"]>>

\* ------------------------------------------------------------------ C13
\* the request of the exchange made in this step is of the given kind
Served(kind) == direct' # direct /\ direct'.kind = kind

\* the sequence of ids of a list
IdSeq(s) == [i \in 1..Len(s) |-> s[i].id]

\* the two lists differ at most in the record at position i
SameBut(s, t, i) == Len(t) = Len(s) /\ \A j \in 1..Len(s) : j # i => t[j] = s[j]

\* C13: a PATCH with a valid status for a task in the store is answered 200
\* and replaces that task's status only: its id, title, description and
\* position stay, every other task stays, whatever else the body carries.
C13_PatchFrame ==
  [][(/\ Served("status")
      /\ FindIndex(tasks, direct'.id) # 0
      /\ UpdateTaskSchemaOk(direct'.body))
        => LET i == FindIndex(tasks, direct'.id)
           IN /\ direct'.resp.code = 200
              /\ SameBut(tasks, tasks', i)
              /\ tasks'[i] = [tasks[i] EXCEPT !.status = direct'.body.status]
              /\ direct'.resp.body = tasks'[i]
              /\ nextId' = nextId]_vars

\* a PATCH that also carried a title and an id has been answered 200 for the
\* second of two stored tasks
C13_Witness ==
  /\ direct.kind = "status" /\ direct.resp.code = 200
  /\ "title" \in DOMAIN direct.body /\ "id" \in DOMAIN direct.body
  /\ Len(tasks) = 2 /\ FindIndex(tasks, direct.id) = 2
  /\ tasks[2].status = "done"

\* ------------------------------------------------------------------ C14
\* C14: a PUT never changes the id or the position of any task, whatever its
\* body contains; a PUT with a valid body for a task in the store is
\* answered 200 and replaces that task's title, description and status and
\* nothing else.
C14_PutFrame ==
  [][Served("update")
       => /\ IdSeq(tasks') = IdSeq(tasks)
          /\ (FindIndex(tasks, direct'.id) # 0 /\ CreateTaskSchemaOk(direct'.body))
               => LET i == FindIndex(tasks, direct'.id)
                  IN /\ direct'.resp.code = 200
                     /\ SameBut(tasks, tasks', i)
                     /\ DOMAIN tasks'[i] = DOMAIN tasks[i]
                     /\ tasks'[i].id = direct'.id
                     /\ tasks'[i].title = direct'.body.title
                     /\ tasks'[i].description = direct'.body.description
                     /\ tasks'[i].status \in TaskStatuses
                     /\ "status" \in DOMAIN direct'.body
                          => tasks'[i].status = direct'.body.status
                     /\ direct'.resp.body = tasks'[i]]_vars

\* a PUT whose body named another id has been answered 200 and the task
\* carries the body's title under its own id
C14_Witness ==
  /\ direct.kind = "update" /\ direct.resp.code = 200
  /\ "id" \in DOMAIN direct.body /\ direct.body.id # direct.id
  /\ Len(tasks) = 2 /\ FindIndex(tasks, direct.id) = 1
  /\ tasks[1].title = direct.body.title
  /\ direct.body.id \in Ids(tasks)

\* ------------------------------------------------------------------ C15
\* C15: whatever request is served, the tasks that stay in the store keep
\* their relative order, and a task that a create adds is the last one.
C15_InsertionOrder ==
  [][/\ IdSeq(SelectSeq(tasks, LAMBDA t : t.id \in Ids(tasks')))
          = IdSeq(SelectSeq(tasks', LAMBDA t : t.id \in Ids(tasks)))
     /\ (Served("create") /\ direct'.resp.code = 201)
          => /\ Len(tasks') = Len(tasks) + 1
             /\ tasks'[Len(tasks')] = direct'.resp.body
             /\ \A j \in 1..Len(tasks) : tasks'[j] = tasks[j]]_vars

\* the first task was deleted and a create has put its task behind the
\* task that had been created before
C15_Witness ==
  /\ direct.kind = "create" /\ direct.resp.code = 201
  /\ IdSeq(tasks) = <<"2", "3">>
  /\ direct.resp.body.id = "3"

\* ------------------------------------------------------------------ C16
\* a body the controller of this kind accepts
ValidBody(kind, body) ==
  CASE kind = "status" -> UpdateTaskSchemaOk(body)
    [] kind = "update" -> CreateTaskSchemaOk(body)
    [] kind = "delete" -> TRUE
    [] OTHER -> FALSE

\* C16: a PATCH, PUT or DELETE with a valid body for an id that is not in
\* the store is answered 404 and changes neither the list nor the counter.
C16_NotFound ==
  [][\A kind \in {"status", "update", "delete"} :
       (/\ direct'.kind = kind
        /\ direct' # direct \/ tasks' # tasks \/ nextId' # nextId
        /\ FindIndex(tasks, direct'.id) = 0
        /\ ValidBody(kind, direct'.body))
         => /\ direct'.resp.code = 404
            /\ tasks' = tasks
            /\ nextId' = nextId]_vars

\* a valid PUT for the id of a deleted task has been answered 404 while
\* another task is in the store
C16_Witness ==
  /\ direct.kind = "update" /\ direct.resp.code = 404
  /\ CreateTaskSchemaOk(direct.body)
  /\ direct.id \in issued /\ direct.id \notin Ids(tasks)
  /\ Len(tasks) > 0

\* ------------------------------------------------------------------ C17
\* C17: whenever a mutation fails for good, its optimistic write is rolled
\* back, the promise of the call rejects, and the error the hook exposes to
\* the presentation layer is non-null.
C17_NoFailureSwallowed ==
  [][\A m \in Mut :
       FailedIn(m)
         => /\ (mut[m].kind # "create" /\ IsSome(mut[m].start)) => cache' = mut[m].start
            /\ mut'[m].stage = "error"
            /\ ExposedError']_vars

C19_ResponseMerged ==
  [][\A m \in Mut :
       (/\ SettledIn(m) /\ mut'[m].stage = "success"
        /\ mut[m].kind \in {"create", "status", "update"})
         => /\ mut[m].kind = "create"
                 => IsSome(cache') /\ mut[m].resp.body.id \in Ids(Get(cache'))
            /\ IsSome(cache')
                 => \A i \in 1..Len(Get(cache')) :
                      Get(cache')[i].id = mut[m].resp.body.id
                        => Get(cache')[i] = mut[m].resp.body]_vars

\* ------------------------------------------------------------------ C20
\* the record is the old one with the given fields merged in
MergedInto(old, new, data) ==
  /\ DOMAIN new = DOMAIN old \cup DOMAIN data
  /\ \A f \in DOMAIN data : new[f] = data[f]
  /\ \A f \in DOMAIN old \ DOMAIN data : new[f] = old[f]

\* C20: in the step that starts an update-status or full-update mutation,
\* before any request is served, the given fields are merged into every
\* cached record with the mutation's id, which keeps its other fields; all
\* other records, the length and the order of the list stay; with no such
\* record, or no list loaded, the cache stays as it is.
C20_OptimisticUpdateFrame ==
  [][\A m \in Mut :
       (StartedIn(m) /\ mut'[m].kind \in {"status", "update"})
         => /\ mut'[m].resp = NoResp /\ UNCHANGED tasks
            /\ IF IsSome(cache)
               THEN /\ IsSome(cache')
                    /\ Len(Get(cache')) = Len(Get(cache))
                    /\ \A i \in 1..Len(Get(cache)) :
                         IF Get(cache)[i].id = mut'[m].id
                         THEN MergedInto(Get(cache)[i], Get(cache')[i], mut'[m].data)
                         ELSE Get(cache')[i] = Get(cache)[i]
                    /\ mut'[m].id \notin Ids(Get(cache)) => cache' = cache
               ELSE cache' = cache]_vars

\* a full update of the first of two cached tasks is in flight and not yet
\* served: the cache shows the new title, the store the old one, and the
\* second task is cached as it was
C20_Witness ==
  \E m \in Mut :
    /\ mut[m].kind = "update" /\ mut[m].stage = "sent" /\ mut[m].attempts = 1
    /\ mut[m].id = "1"
    /\ IsSome(cache) /\ Len(Get(cache)) = 2 /\ Len(tasks) = 2
    /\ Get(cache)[1].title = mut[m].data.title
    /\ Get(cache)[1].id = "1"
    /\ tasks[1].title = "Sample Task"
    /\ Get(cache)[2] = tasks[2]

\* ------------------------------------------------------------------ C21
\* the list s with every record of the given id left out, front to back
RECURSIVE Without(_, _)
Without(s, id) ==
  IF s = <<>> THEN <<>>
  ELSE IF Head(s).id = id THEN Without(Tail(s), id)
       ELSE <<Head(s)>> \o Without(Tail(s), id)

\* C21: in the step that starts a delete mutation, before any request is
\* served, the cached list loses exactly the records with the mutation's id
\* and keeps the others in their order; with no list loaded the cache stays
\* as it is.
C21_OptimisticDelete ==
  [][\A m \in Mut :
       (StartedIn(m) /\ mut'[m].kind = "delete")
         => /\ mut'[m].resp = NoResp /\ UNCHANGED tasks
            /\ IF IsSome(cache)
               THEN /\ cache' = Some(Without(Get(cache), mut'[m].id))
                    /\ mut'[m].id \notin Ids(Get(cache'))
               ELSE cache' = cache]_vars

\* a delete of the first of two cached tasks is in flight and not yet
\* served: the cache shows the second task only, the store still both
C21_Witness ==
  \E m \in Mut :
    /\ mut[m].kind = "delete" /\ mut[m].stage = "sent" /\ mut[m].attempts = 1
    /\ mut[m].id = "1"
    /\ IsSome(mut[m].ctx) /\ Len(Get(mut[m].ctx)) = 2
    /\ IsSome(cache) /\ IdSeq(Get(cache)) = <<"2">>
    /\ IdSeq(tasks) = <<"1", "2">>

OptimisticKinds == {"status", "update", "delete"}

OtherMoves(m) == \E k \in Mut \ {m} : mut'[k] # mut[k] /\ ~ProcessedIn(k)

RetriedIn(m) == Pending(m) /\ mut'[m].attempts = mut[m].attempts + 1

\* C25: a mutation's request is attempted at most twice.  The retry leaves
\* the cache, the rollback context and what the caller is shown as error
\* alone; a mutation ends in error only when its second attempt has failed,
\* and the failure of a second attempt always settles it.
C25_SingleRetry ==
  [][\A m \in Mut :
       /\ mut'[m].attempts <= 1 + MutationRetry
       /\ RetriedIn(m)
            => /\ mut[m].attempts = 1
               /\ mut'[m].stage = "sent" /\ mut'[m].resp = NoResp
               /\ mut'[m].ctx = mut[m].ctx
               /\ UNCHANGED <<cache, invalid, fetch, tasks>>
               /\ ExposedError' = ExposedError
       /\ FailedIn(m) => mut[m].attempts = 1 + MutationRetry
       /\ (Pending(m) /\ mut[m].attempts = 1 + MutationRetry
             /\ mut'[m] # mut[m] /\ ~ProcessedIn(m)) => SettledIn(m)]_vars

\* a delete is in its second attempt with its optimistic removal in place
C25_Witness ==
  \E m \in Mut :
    /\ mut[m].kind = "delete" /\ mut[m].stage = "sent" /\ mut[m].attempts = 2
    /\ mut[m].ctx = Some(<<SampleTask>>) /\ cache = Some(<<>>)
    /\ ~ExposedError

\* ------------------------------------------------------------------ C26
\* the input of a create or a full update that the schema refuses
InvalidInput(kind, data) ==
  kind \in {"create", "update"} /\ data # NoData /\ ~CreateTaskSchemaOk(data)

\* C26: a mutation whose input fails schema validation is never sent, so it
\* has no attempt at all and certainly no second one, and the step in which
\* it is handed to the mutation layer changes neither the cache nor the store.
C26_InvalidInputNotSent ==
  [][\A m \in Mut :
       InvalidInput(mut'[m].kind, mut'[m].data)
         => /\ mut'[m].attempts = 0
            /\ mut'[m] # mut[m] => UNCHANGED <<cache, tasks>>]_vars

\* ------------------------------------------------------------------ C27
\* the createTask calls made so far
CreateCalls == {m \in Mut : mut[m].kind = "create"}

\* C27: the store has assigned at most one id per createTask call (besides
\* the sample task's), whatever happened to the responses.
C27_OneTaskPerCreate == Cardinality(issued) <= 1 + Cardinality(CreateCalls)

\* ------------------------------------------------------------------ C28
\* C28: no two positions of the cached collection hold the same id.
C28_CacheIdsDistinct ==
  IsSome(cache) =>
    \A i, j \in 1..Len(Get(cache)) : Get(cache)[i].id = Get(cache)[j].id => i = j

\* ------------------------------------------------------------------ C29
\* the collection the cache showed right after the optimistic merge of m
ShownAfterMerge(m) ==
  OptimisticApply(mut[m].kind, Get(mut[m].ctx), mut[m].id, mut[m].data)

\* C29: when the server applies a full update that carries no status, to a
\* task whose status in the store is the one the cache held when the update
\* started, the store's status for the task afterwards is the status the
\* cache showed after the optimistic merge.
C29_StatusKept ==
  [][\A m \in Mut :
       (/\ ProcessedIn(m) /\ mut[m].kind = "update"
        /\ "status" \notin DOMAIN mut[m].data
        /\ mut'[m].resp.code = 200
        /\ IsSome(mut[m].ctx)
        /\ StatusOf(Get(mut[m].ctx), mut[m].id) = StatusOf(tasks, mut[m].id))
         => StatusOf(tasks', mut[m].id) = StatusOf(ShownAfterMerge(m), mut[m].id)]_vars

\* ------------------------------------------------------------------ C30
\* m is an optimistic mutation in flight that has written to the cache
InFlightOptimistic(m) ==
  Pending(m) /\ mut[m].kind \in OptimisticKinds /\ IsSome(mut[m].ctx)

\* the collection c shows the optimistic effect of m: writing it again
\* would change nothing
Shows(m, c) ==
  IsSome(c) /\ OptimisticApply(mut[m].kind, Get(c), mut[m].id, mut[m].data) = Get(c)

\* the result of a list fetch becomes the cached collection in this step
ListLands == fetch.stage = "served" /\ fetch'.stage = "none" /\ cache' = Some(fetch.data)

\* C30: neither a list result landing nor the failure handling of another
\* mutation takes the optimistic effect of a mutation that stays in flight
\* out of the cache.
C30_OptimisticEffectStays ==
  [][\A m \in Mut :
       (/\ InFlightOptimistic(m) /\ Pending(m)'
        /\ Shows(m, cache)
        /\ ListLands \/ \E k \in Mut \ {m} : FailedIn(k))
         => Shows(m, cache')]_vars

====
